---- MODULE Spec2Model ----
(***************************************************************************)
(* A model of src/src/trainer.py (class Trainer): the epoch loop of        *)
(* train(), its train / validation / end-of-epoch phases, the checkpoint   *)
(* files it writes and the resume path of __init__.                        *)
(*                                                                         *)
(* Abstractions.  The model, optimizer, scheduler and averaged model are   *)
(* opaque objects: the state of each is the number of times its mutating   *)
(* call (optimizer.step, scheduler.step, averaged_model.update) has been   *)
(* folded into it.  An optional object that is None is the empty tuple,    *)
(* one that is present is a 1-tuple holding its state.  A loss value is a  *)
(* rational <<total, n>> (the running weighted mean of LossMetric), and    *)
(* math.inf is <<1, 0>>.  save_path, when present, is an absolute          *)
(* directory, so a checkpoint file is named by its base name.              *)
(***************************************************************************)
EXTENDS Integers, Sequences, FiniteSets, TLC

VARIABLES
    cfg,                \* the constructor's arguments (trainer.py 40-57)
    pc,                 \* the position of the process in __init__ / train()
    err,                \* the exception that ended the process ("" if none)
    start_epoch,        \* self.start_epoch
    epoch,              \* the loop variable of train()
    batch,              \* the index of the next batch of the loader being iterated
    model,              \* self.model: optimizer steps folded into its parameters
    optimizer,          \* self.optimizer: its state (steps taken)
    scheduler,          \* self.scheduler: <<>> (None) or <<steps>>
    averaged_model,     \* self.averaged_model: <<>> (None) or <<updates folded>>
    metric,             \* the six metric accumulators
    best_val_loss,      \* self.best_val_loss
    best_avg_val_loss,  \* self.best_avg_val_loss
    disk,               \* the checkpoint files under save_path: name -> bundle
    preds_dir,          \* the prediction files under save_path/preds
    loss_values,        \* environment: per epoch, the losses a validation
                        \*   batch can yield
    resumes_left,       \* environment: Trainers that may still be constructed
    calls,              \* history: calls made by this Trainer (optimizer.step,
                        \*   averaged_model.update, scheduler.step, _train_loop)
    audit,              \* history: per file, the epoch arguments of this
                        \*   Trainer's saves, and the train phases folded into
                        \*   the model when the file was last written
    trained,            \* history: epochs whose train phase is folded into model
    lowest_val,         \* history: the lowest validation loss of the epochs
                        \*   this Trainer has ended (+infinity before the first)
    lowest_avg,         \* history: the same, of the averaged model
    ended,              \* history: end-of-epoch phases completed by this Trainer
    writing,            \* torch.save in progress: <<>> or <<[path, bundle]>>
    call,               \* the call of a function of plotter.py: <<>> or <<args>>
    result              \* what that call did: <<>> until it has returned

vars == <<cfg, pc, err, start_epoch, epoch, batch, model, optimizer, scheduler,
          averaged_model, metric, best_val_loss, best_avg_val_loss, disk,
          preds_dir, loss_values, resumes_left, calls, audit, trained,
          lowest_val, lowest_avg, ended, writing, call, result>>

----------------------------------------------------------------------------
(* Bounds *)

MaxEpochs == 3
NumTrainBatches == 2
NumValBatches == 1
MaxResumes == 1

\* The validation losses of the best-checkpoint scenario, in tenths.
ScenarioLosses == <<30, 25, 25, 20, 26>>

FullFiles == {"most_recent.pt", "best_model.pt", "final_model.pt"}
AvgFiles == {"averaged_most_recent.pt", "best_averaged_model.pt",
             "final_averaged_model.pt"}
FileNames == FullFiles \cup AvgFiles

None == <<>>
Some(x) == <<x>>

----------------------------------------------------------------------------
(* src.metrics (LossMetric, AccuracyMetric) *)

Inf == <<1, 0>>

\* a > b on rationals <<total, n>>, with <<1, 0>> as +infinity
Greater(a, b) == a[1] * b[2] > b[1] * a[2]

\* the lower of two losses
Lower(a, b) == IF Greater(a, b) THEN b ELSE a

EmptyLoss == [total |-> 0, n |-> 0]
EmptyAcc == [n |-> 0]

LossUpdate(m, loss, size) == [total |-> m.total + loss * size, n |-> m.n + size]
LossCompute(m) == <<m.total, m.n>>
AccUpdate(m, size) == [n |-> m.n + size]

NewMetrics ==
    [train_loss_metric |-> EmptyLoss, train_acc_metric |-> EmptyAcc,
     val_loss_metric |-> EmptyLoss, val_acc_metric |-> EmptyAcc,
     avg_model_loss_metric |-> EmptyLoss, avg_model_acc_metric |-> EmptyAcc]

\* get_preds() of an accumulator that was fed no batch: whether it raises
\* or returns an empty vector is not fixed by the sources at hand.
GetPredsOutcomes(m) == IF m.n > 0 THEN {"ok"} ELSE {"ok", "raise"}

----------------------------------------------------------------------------
(* Checkpoint bundles *)

SavedEpoch(e) == e + 1

\* the scheduler's state is left out of the bundle
FullBundleNoScheduler(e) ==
    [epoch |-> SavedEpoch(e), optimizer |-> optimizer, model |-> model,
     scheduler |-> None]

FullBundle(e) ==
    [epoch |-> SavedEpoch(e), optimizer |-> optimizer, model |-> model,
     scheduler |-> scheduler]

AvgBundle(e) ==
    [epoch |-> SavedEpoch(e), model |-> averaged_model[1], decay |-> "decay"]

NoFiles == [f \in {} |-> None]

Put(d, path, bundle) ==
    [f \in DOMAIN d \cup {path} |-> IF f = path THEN bundle ELSE d[f]]

\* history: the validation loss a best checkpoint is written for
GatedLoss(path) ==
    IF path = "best_model.pt" THEN LossCompute(metric.val_loss_metric)
    ELSE IF path = "best_averaged_model.pt"
      THEN LossCompute(metric.avg_model_loss_metric)
    ELSE Inf

Noted(a, path, e) ==
    [a EXCEPT ![path] = [at |-> Append(@.at, e), lineage |-> trained,
                         loss |-> GatedLoss(path)]]

\* s is the pair [disk, audit]
SaveModel(s, path, e) ==
    [disk |-> Put(s.disk, path, FullBundle(e)), audit |-> Noted(s.audit, path, e)]

SaveAveragedModel(s, path, e) ==
    [disk |-> Put(s.disk, path, AvgBundle(e)), audit |-> Noted(s.audit, path, e)]

NoAudit == [f \in FileNames |-> [at |-> <<>>, lineage |-> <<>>, loss |-> Inf]]
NewAudit(a) ==
    [f \in FileNames |-> [at |-> <<>>, lineage |-> a[f].lineage,
                          loss |-> a[f].loss]]

NoCalls == [opt |-> 0, ema |-> 0, sched |-> 0, train_loop |-> 0]

----------------------------------------------------------------------------
(* Construction without a checkpoint *)

Configs(epochs) ==
    [epochs : epochs, val_loader : BOOLEAN, update_sched_on_iter : BOOLEAN,
     writer : BOOLEAN, save_path : BOOLEAN, save_preds : BOOLEAN,
     checkpoint_path : {None}]

Fresh(c, sch, avg) ==
    /\ cfg = c
    /\ pc = "ready"
    /\ err = ""
    /\ start_epoch = 0
    /\ epoch = 0
    /\ batch = 0
    /\ model = 0
    /\ optimizer = 0
    /\ scheduler = sch
    /\ averaged_model = avg
    /\ metric = NewMetrics
    /\ best_val_loss = Inf
    /\ best_avg_val_loss = Inf
    /\ disk = NoFiles
    /\ preds_dir = {}
    /\ calls = NoCalls
    /\ audit = NoAudit
    /\ trained = <<>>
    /\ lowest_val = Inf
    /\ lowest_avg = Inf
    /\ ended = 0

\* update_sched_on_iter and save_preds are read only behind a scheduler and
\* a save path; without them they keep their default, False.
Constructed(epochs) ==
    \E c \in Configs(epochs), sch \in {None, Some(0)}, avg \in {None, Some(0)} :
       /\ c.update_sched_on_iter => sch # None
       /\ c.save_preds => c.save_path
       /\ Fresh(c, sch, avg)

AnyLosses == [e \in 0..(MaxEpochs - 1) |-> {1, 2}]
ScenarioPlan == [e \in 0..(Len(ScenarioLosses) - 1) |-> {ScenarioLosses[e + 1]}]

\* A Trainer of up to MaxEpochs epochs whose validation batches yield any
\* loss, or the Trainer of the scenario, whose validation batches of epoch e
\* yield the e-th loss of ScenarioLosses.
Init ==
    /\ \/ Constructed(0..MaxEpochs) /\ loss_values = AnyLosses
       \/ /\ Constructed({Len(ScenarioLosses)})
          /\ cfg.val_loader /\ cfg.save_path
          /\ loss_values = ScenarioPlan
    /\ resumes_left = MaxResumes
    /\ writing = None
    /\ call = None
    /\ result = None

----------------------------------------------------------------------------
(* train(): the epoch loop *)

\* for epoch in range(self.start_epoch, self.epochs)
LoopHead(e) ==
    /\ epoch' = e
    /\ batch' = 0
    /\ pc' = IF e < cfg.epochs THEN "forward" ELSE "final"

\* the loop starts one epoch late
FirstEpochLate == start_epoch + 1

\* range(self.start_epoch, ...)
FirstEpoch == start_epoch

TrainStart ==
    /\ UNCHANGED <<writing, call, result>>
    /\ pc = "ready"
    /\ LoopHead(FirstEpoch)
    /\ UNCHANGED <<cfg, err, start_epoch, model, optimizer, scheduler,
                   averaged_model, metric, best_val_loss, best_avg_val_loss,
                   disk, preds_dir, loss_values, resumes_left, calls, audit,
                   trained, lowest_val, lowest_avg, ended>>

----------------------------------------------------------------------------
(* _train_loop: one batch is forward/backward, optimizer step, averaged   *)
(* model update, per-iteration scheduler step, metrics                     *)

SchedOnIter == scheduler # None /\ cfg.update_sched_on_iter

\* the per-epoch step taken whatever the granularity
SchedOnEpochAlways == scheduler # None

SchedOnEpoch == scheduler # None /\ ~cfg.update_sched_on_iter

AfterSchedCheck == IF SchedOnIter THEN "sched_iter" ELSE "train_metrics"

\* the averaged model is left out of the batch
AfterOptimizerStepNoUpdate == AfterSchedCheck

AfterOptimizerStep == IF averaged_model # None THEN "ema" ELSE AfterSchedCheck

Forward ==
    /\ UNCHANGED <<writing, call, result>>
    /\ pc = "forward"
    /\ pc' = "optimizer_step"
    /\ UNCHANGED <<cfg, err, start_epoch, epoch, batch, model, optimizer,
                   scheduler, averaged_model, metric, best_val_loss,
                   best_avg_val_loss, disk, preds_dir, loss_values,
                   resumes_left, calls, audit, trained, lowest_val, lowest_avg,
                   ended>>

OptimizerStep ==
    /\ UNCHANGED <<writing, call, result>>
    /\ pc = "optimizer_step"
    /\ model' = model + 1
    /\ optimizer' = optimizer + 1
    /\ calls' = [calls EXCEPT !.opt = @ + 1]
    /\ pc' = AfterOptimizerStep
    /\ UNCHANGED <<cfg, err, start_epoch, epoch, batch, scheduler,
                   averaged_model, metric, best_val_loss, best_avg_val_loss,
                   disk, preds_dir, loss_values, resumes_left, audit, trained,
                   lowest_val, lowest_avg, ended>>

AveragedUpdate ==
    /\ UNCHANGED <<writing, call, result>>
    /\ pc = "ema"
    /\ averaged_model' = Some(averaged_model[1] + 1)
    /\ calls' = [calls EXCEPT !.ema = @ + 1]
    /\ pc' = AfterSchedCheck
    /\ UNCHANGED <<cfg, err, start_epoch, epoch, batch, model, optimizer,
                   scheduler, metric, best_val_loss, best_avg_val_loss, disk,
                   preds_dir, loss_values, resumes_left, audit, trained,
                   lowest_val, lowest_avg, ended>>

SchedIterStep ==
    /\ UNCHANGED <<writing, call, result>>
    /\ pc = "sched_iter"
    /\ scheduler' = Some(scheduler[1] + 1)
    /\ calls' = [calls EXCEPT !.sched = @ + 1]
    /\ pc' = "train_metrics"
    /\ UNCHANGED <<cfg, err, start_epoch, epoch, batch, model, optimizer,
                   averaged_model, metric, best_val_loss, best_avg_val_loss,
                   disk, preds_dir, loss_values, resumes_left, audit, trained,
                   lowest_val, lowest_avg, ended>>

TrainMetrics ==
    /\ UNCHANGED <<writing, call, result>>
    /\ pc = "train_metrics"
    /\ metric' = [metric EXCEPT
                    !.train_loss_metric = LossUpdate(@, 1, 1),
                    !.train_acc_metric = AccUpdate(@, 1)]
    /\ batch' = batch + 1
    /\ pc' = IF batch + 1 < NumTrainBatches THEN "forward" ELSE "train_end"
    /\ UNCHANGED <<cfg, err, start_epoch, epoch, model, optimizer, scheduler,
                   averaged_model, best_val_loss, best_avg_val_loss, disk,
                   preds_dir, loss_values, resumes_left, calls, audit, trained,
                   lowest_val, lowest_avg, ended>>

AfterValLoop == IF averaged_model # None THEN "avg_val" ELSE "end"

\* the averaged model validated first, the primary model not at all
AfterTrainLoopAveragedFirst ==
    IF cfg.val_loader
      THEN (IF averaged_model # None THEN "avg_val" ELSE "val")
      ELSE "end"

AfterTrainLoop == IF cfg.val_loader THEN "val" ELSE "end"

\* the end of _train_loop (per-epoch scheduler step) and the return to train()
TrainEnd ==
    /\ UNCHANGED <<writing, call, result>>
    /\ pc = "train_end"
    /\ IF SchedOnEpoch
         THEN /\ scheduler' = Some(scheduler[1] + 1)
              /\ calls' = [calls EXCEPT !.sched = @ + 1, !.train_loop = @ + 1]
         ELSE /\ scheduler' = scheduler
              /\ calls' = [calls EXCEPT !.train_loop = @ + 1]
    /\ trained' = Append(trained, epoch)
    /\ batch' = 0
    /\ pc' = AfterTrainLoop
    /\ UNCHANGED <<cfg, err, start_epoch, epoch, model, optimizer,
                   averaged_model, metric, best_val_loss, best_avg_val_loss,
                   disk, preds_dir, loss_values, resumes_left, audit, lowest_val,
                   lowest_avg, ended>>

----------------------------------------------------------------------------
(* _val_loop *)

ValBatch ==
    /\ UNCHANGED <<writing, call, result>>
    /\ pc = "val"
    /\ \E loss \in loss_values[epoch] :
          metric' = [metric EXCEPT
                       !.val_loss_metric = LossUpdate(@, loss, 1),
                       !.val_acc_metric = AccUpdate(@, 1)]
    /\ IF batch + 1 < NumValBatches
         THEN batch' = batch + 1 /\ pc' = "val"
         ELSE batch' = 0 /\ pc' = AfterValLoop
    /\ UNCHANGED <<cfg, err, start_epoch, epoch, model, optimizer, scheduler,
                   averaged_model, best_val_loss, best_avg_val_loss, disk,
                   preds_dir, loss_values, resumes_left, calls, audit, trained,
                   lowest_val, lowest_avg, ended>>

AvgValBatch ==
    /\ UNCHANGED <<writing, call, result>>
    /\ pc = "avg_val"
    /\ \E loss \in loss_values[epoch] :
          metric' = [metric EXCEPT
                       !.avg_model_loss_metric = LossUpdate(@, loss, 1),
                       !.avg_model_acc_metric = AccUpdate(@, 1)]
    /\ IF batch + 1 < NumValBatches
         THEN batch' = batch + 1 /\ pc' = "avg_val"
         ELSE batch' = 0 /\ pc' = "end"
    /\ UNCHANGED <<cfg, err, start_epoch, epoch, model, optimizer, scheduler,
                   averaged_model, best_val_loss, best_avg_val_loss, disk,
                   preds_dir, loss_values, resumes_left, calls, audit, trained,
                   lowest_val, lowest_avg, ended>>

----------------------------------------------------------------------------
(* _end_loop *)

\* a tie counts as an improvement
IsBetterOrEqual(best, loss) == ~Greater(loss, best)

\* the gate lets every loss through
IsAnyLoss(best, loss) == loss = loss

\* self.best_val_loss > val_loss
IsBetter(best, loss) == Greater(best, loss)

\* _write_to_tb reads self.scheduler.get_last_lr() behind the checks of the
\* validation loader and the averaged model only
WriteToTbRaises ==
    cfg.val_loader /\ averaged_model # None /\ scheduler = None

\* the validation accumulators are left as they are
ResetTrainMetrics(m) ==
    [m EXCEPT !.train_loss_metric = EmptyLoss, !.train_acc_metric = EmptyAcc]

ResetMetrics(m) ==
    [train_loss_metric |-> EmptyLoss,
     train_acc_metric |-> EmptyAcc,
     val_loss_metric |-> IF cfg.val_loader THEN EmptyLoss ELSE m.val_loss_metric,
     val_acc_metric |-> IF cfg.val_loader THEN EmptyAcc ELSE m.val_acc_metric,
     avg_model_loss_metric |->
        IF averaged_model # None THEN EmptyLoss ELSE m.avg_model_loss_metric,
     avg_model_acc_metric |->
        IF averaged_model # None THEN EmptyAcc ELSE m.avg_model_acc_metric]

Raise(e) ==
    /\ pc' = "error"
    /\ err' = e

\* both files of an epoch get the name of the primary one
PredFileSameName(e, average) == [epoch |-> e, average |-> FALSE]

\* f"{epoch}" and f"{epoch}_average", to which np.save appends ".npy"
PredFile(e, average) == [epoch |-> e, average |-> average]

EndLoop ==
    /\ UNCHANGED <<writing, call, result>>
    /\ pc = "end"
    /\ IF cfg.writer /\ WriteToTbRaises
         THEN /\ Raise("AttributeError: scheduler is None")
              /\ UNCHANGED <<epoch, batch, metric, best_val_loss,
                             best_avg_val_loss, disk, preds_dir, audit,
                             lowest_val, lowest_avg, ended>>
         ELSE
           LET val_loss == LossCompute(metric.val_loss_metric)
               avg_val_loss == LossCompute(metric.avg_model_loss_metric)
               saving == cfg.save_path
               averaging == averaged_model # None
               better == saving /\ cfg.val_loader
                           /\ IsBetter(best_val_loss, val_loss)
               avg_better == saving /\ averaging /\ cfg.val_loader
                               /\ IsBetter(best_avg_val_loss, avg_val_loss)
               s0 == [disk |-> disk, audit |-> audit]
               s1 == IF saving THEN SaveModel(s0, "most_recent.pt", epoch)
                     ELSE s0
               s2 == IF better THEN SaveModel(s1, "best_model.pt", epoch)
                     ELSE s1
               s3 == IF saving /\ averaging
                       THEN SaveAveragedModel(s2, "averaged_most_recent.pt", epoch)
                       ELSE s2
               s4 == IF avg_better
                       THEN SaveAveragedModel(s3, "best_averaged_model.pt", epoch)
                       ELSE s3
               Completes ==
                   /\ metric' = ResetMetrics(metric)
                   /\ ended' = ended + 1
                   /\ lowest_val' = IF cfg.val_loader
                                      THEN Lower(lowest_val, val_loss)
                                      ELSE lowest_val
                   /\ lowest_avg' = IF cfg.val_loader /\ averaging
                                      THEN Lower(lowest_avg, avg_val_loss)
                                      ELSE lowest_avg
                   /\ LoopHead(epoch + 1)
                   /\ err' = err
               Stops(e) ==
                   /\ Raise(e)
                   /\ UNCHANGED <<epoch, batch, metric, lowest_val, lowest_avg,
                                  ended>>
           IN  /\ best_val_loss' = IF better THEN val_loss ELSE best_val_loss
               /\ best_avg_val_loss' =
                     IF avg_better THEN avg_val_loss ELSE best_avg_val_loss
               /\ disk' = s4.disk
               /\ audit' = s4.audit
               /\ IF saving /\ cfg.save_preds
                    THEN \E o1 \in GetPredsOutcomes(metric.val_acc_metric),
                            o2 \in GetPredsOutcomes(metric.avg_model_acc_metric) :
                           IF o1 = "raise"
                             THEN /\ preds_dir' = preds_dir
                                  /\ Stops("get_preds: no predictions")
                             ELSE IF o2 = "raise"
                               THEN /\ preds_dir' = preds_dir
                                                      \cup {PredFile(epoch, FALSE)}
                                    /\ Stops("get_preds: no predictions")
                               ELSE /\ preds_dir' = preds_dir
                                          \cup {PredFile(epoch, FALSE),
                                                PredFile(epoch, TRUE)}
                                    /\ Completes
                    ELSE /\ preds_dir' = preds_dir
                         /\ Completes
    /\ UNCHANGED <<cfg, start_epoch, model, optimizer, scheduler,
                   averaged_model, loss_values, resumes_left, calls, trained>>

----------------------------------------------------------------------------
(* train(): after the loop *)

\* final checkpoints only when the run left no best checkpoint
SaveFinalUnlessBest(s) ==
    IF "best_model.pt" \in DOMAIN s.disk THEN s
    ELSE LET s1 == SaveModel(s, "final_model.pt", cfg.epochs)
         IN  IF averaged_model # None
               THEN SaveAveragedModel(s1, "final_averaged_model.pt", cfg.epochs)
               ELSE s1

\* the two saves that end train()
SaveFinal(s) ==
    LET s1 == SaveModel(s, "final_model.pt", cfg.epochs)
    IN  IF averaged_model # None
          THEN SaveAveragedModel(s1, "final_averaged_model.pt", cfg.epochs)
          ELSE s1

\* os.path.join(self.save_path, "final_model.pt") with save_path None
FinalSave ==
    /\ UNCHANGED <<writing, call, result>>
    /\ pc = "final"
    /\ IF ~cfg.save_path
         THEN /\ Raise("TypeError: save_path is None")
              /\ UNCHANGED <<disk, audit>>
         ELSE LET s2 == SaveFinal([disk |-> disk, audit |-> audit])
              IN  /\ disk' = s2.disk
                  /\ audit' = s2.audit
                  /\ pc' = "done"
                  /\ err' = err
    /\ UNCHANGED <<cfg, start_epoch, epoch, batch, model, optimizer, scheduler,
                   averaged_model, metric, best_val_loss, best_avg_val_loss,
                   preds_dir, loss_values, resumes_left, calls, trained,
                   lowest_val, lowest_avg, ended>>

----------------------------------------------------------------------------
(* __init__ with checkpoint_path, _load_from_checkpoint *)

\* a checkpoint of a finished schedule is rejected as well
ResumeAllowedBelow(start, epochs) == ~(start >= epochs)

\* the check that lets the load pass: not (start_epoch > epochs)
ResumeAllowed(start, epochs) == ~(start > epochs)

\* the process has ended, or is stopped between two epochs
BetweenEpochs ==
    \/ pc \in {"ready", "final", "done", "error"}
    \/ pc = "forward" /\ batch = 0

\* A new process constructs a Trainer over the same save_path with the same
\* optional components (a new scheduler and a new averaged model, when
\* configured), a number of epochs of its own and one of the full checkpoints.
\* The load assigns model, optimizer, start_epoch and scheduler before its
\* check; the averaged model is not part of what is loaded.
Resume(path, n) ==
    /\ UNCHANGED <<writing, call, result>>
    /\ resumes_left > 0
    /\ BetweenEpochs
    /\ path \in DOMAIN disk \cap FullFiles
    /\ LET checkpoint == disk[path]
       IN  /\ model' = checkpoint.model
           /\ optimizer' = checkpoint.optimizer
           /\ start_epoch' = checkpoint.epoch
           /\ scheduler' = IF scheduler # None THEN checkpoint.scheduler
                           ELSE None
           /\ IF ResumeAllowed(checkpoint.epoch, n)
                THEN pc' = "ready" /\ err' = ""
                ELSE Raise("ValueError: starting epoch is larger than total epochs")
    /\ cfg' = [cfg EXCEPT !.epochs = n, !.checkpoint_path = Some(path)]
    /\ averaged_model' = IF averaged_model # None THEN Some(0) ELSE None
    /\ metric' = NewMetrics
    /\ best_val_loss' = Inf
    /\ best_avg_val_loss' = Inf
    /\ epoch' = 0
    /\ batch' = 0
    /\ resumes_left' = resumes_left - 1
    /\ calls' = NoCalls
    /\ audit' = NewAudit(audit)
    /\ trained' = audit[path].lineage
    /\ lowest_val' = Inf
    /\ lowest_avg' = Inf
    /\ ended' = 0
    /\ UNCHANGED <<disk, preds_dir, loss_values>>

Restart == \E path \in FullFiles, n \in 0..MaxEpochs : Resume(path, n)

----------------------------------------------------------------------------

Next ==
    \/ TrainStart
    \/ Forward
    \/ OptimizerStep
    \/ AveragedUpdate
    \/ SchedIterStep
    \/ TrainMetrics
    \/ TrainEnd
    \/ ValBatch
    \/ AvgValBatch
    \/ EndLoop
    \/ FinalSave
    \/ Restart

Spec == Init /\ [][Next]_vars

----------------------------------------------------------------------------
(* torch.save, as the file system sees it                                  *)
(*                                                                         *)
(* _save_model and _save_averaged_model hand the target path itself to     *)
(* torch.save, which opens it for writing (the file is truncated) and then *)
(* writes the serialised bundle into it. SaveSpec runs these two steps of  *)
(* a save of a constructed Trainer, for any file and epoch argument, with  *)
(* the directory visible between them; the history variables stand still. *)

\* the content of a file that is open for writing and not yet complete
Truncated == [partial |-> TRUE]

TrainerVars ==
    <<cfg, pc, err, start_epoch, epoch, batch, model, optimizer, scheduler,
      averaged_model, metric, best_val_loss, best_avg_val_loss, preds_dir,
      loss_values, resumes_left, calls, trained, lowest_val, lowest_avg, ended>>

SaveInit ==
    /\ Constructed(1..MaxEpochs)
    /\ cfg.save_path
    /\ loss_values = AnyLosses
    /\ resumes_left = 0
    /\ writing = None
    /\ call = None
    /\ result = None

\* torch.save(..., path): open(path, "wb")
OpenForSave(path, e) ==
    /\ writing = None
    /\ path \in AvgFiles => averaged_model # None
    /\ writing' = Some([path |-> path, e |-> e])
    /\ disk' = Put(disk, path, Truncated)
    /\ UNCHANGED <<audit, call, result>>
    /\ UNCHANGED TrainerVars

\* torch.save(..., path): the bundle is written and the file closed
FinishSave ==
    /\ writing # None
    /\ LET path == writing[1].path
           s == [disk |-> disk, audit |-> audit]
       IN  disk' = IF path \in AvgFiles
                     THEN SaveAveragedModel(s, path, writing[1].e).disk
                     ELSE SaveModel(s, path, writing[1].e).disk
    /\ writing' = None
    /\ UNCHANGED <<audit, call, result>>
    /\ UNCHANGED TrainerVars

\* a save of the first or of the last epoch
BeginSave ==
    \E path \in FileNames, e \in {0, cfg.epochs - 1} : OpenForSave(path, e)

SaveNext ==
    \/ BeginSave
    \/ FinishSave

SaveSpec == SaveInit /\ [][SaveNext]_vars

----------------------------------------------------------------------------
(* plotter.py: the arrays                                                  *)
(*                                                                         *)
(* A correctness matrix is a boolean array of shape (E, N), here the rows  *)
(* 1..E of entries 0/1 in columns 1..N; sample indices are those of the    *)
(* source, 0..N-1. A mean is the pair <<sum, count>>; a count of 0 is the  *)
(* nan of the mean of an empty slice.                                      *)

Rows(m) == Len(m)
Cols(m) == Len(m[1])
ShapeOf(m) == <<Rows(m), Cols(m)>>

\* numpy broadcasting of two axes, one of which has length 1 if they differ
Broadcast(x, y) == IF x = 1 THEN y ELSE x
At(m, e, n) == m[IF Rows(m) = 1 THEN 1 ELSE e][IF Cols(m) = 1 THEN 1 ELSE n]

RECURSIVE SumSeq(_)
SumSeq(s) == IF s = <<>> THEN 0 ELSE Head(s) + SumSeq(Tail(s))

\* a == b, elementwise
Equal(a, b) ==
    [e \in 1..Broadcast(Rows(a), Rows(b)) |->
        [n \in 1..Broadcast(Cols(a), Cols(b)) |->
            IF At(a, e, n) = At(b, e, n) THEN 1 ELSE 0]]

\* a + b of boolean arrays, elementwise
Or(a, b) ==
    [e \in 1..Broadcast(Rows(a), Rows(b)) |->
        [n \in 1..Broadcast(Cols(a), Cols(b)) |->
            IF At(a, e, n) + At(b, e, n) > 0 THEN 1 ELSE 0]]

\* (a == b) * (1 - a), elementwise
BothWrong(a, b) ==
    [e \in 1..Broadcast(Rows(a), Rows(b)) |->
        [n \in 1..Broadcast(Cols(a), Cols(b)) |->
            (IF At(a, e, n) = At(b, e, n) THEN 1 ELSE 0) * (1 - At(a, e, n))]]

\* m[1:, ...] == m[:-1, ...]
Unchanged(m) ==
    [e \in 1..(Rows(m) - 1) |->
        [n \in 1..Cols(m) |-> IF m[e + 1][n] = m[e][n] THEN 1 ELSE 0]]

\* m[1:, ...]
DropFirst(m) == [e \in 1..(Rows(m) - 1) |-> m[e + 1]]

\* np.mean(m, axis=1): one mean per row
MeanOfRows(m) == [e \in 1..Len(m) |-> <<SumSeq(m[e]), Len(m[e])>>]

\* np.mean(m, axis=0) of an array of cols columns: one mean per column
MeanOfCols(m, cols) ==
    [n \in 1..cols |-> <<SumSeq([e \in 1..Len(m) |-> m[e][n]]), Len(m)>>]

\* 1 - y, elementwise
OneMinus(y) == [k \in 1..Len(y) |-> <<y[k][2] - y[k][1], y[k][2]>>]

\* np.convolve(y, np.ones((w,)) / w, mode="valid"): the means of the windows
\* of w values; numpy swaps the operands when the window is the longer one
Convolve(y, w) ==
    IF w <= Len(y)
      THEN [k \in 1..(Len(y) - w + 1) |->
              <<SumSeq([t \in 1..w |-> y[k + t - 1][1]]), y[k][2] * w>>]
      ELSE [k \in 1..(w - Len(y) + 1) |->
              <<SumSeq([t \in 1..Len(y) |-> y[t][1]]), y[1][2] * w>>]

\* the values plotted for y under a window
Windowed(y, window) == IF window > 0 THEN Convolve(y, window) ELSE y

\* np.argsort(score): the indices 0..N-1 by ascending score, equal scores
\* in index order (the insertion sort numpy uses on short arrays)
ArgSort(score) ==
    LET N == Len(score)
        before(m, n) == score[m] < score[n] \/ (score[m] = score[n] /\ m < n)
        place(n) == Cardinality({m \in 1..N : before(m, n)}) + 1
    IN  [k \in 1..N |-> (CHOOSE n \in 1..N : place(n) = k) - 1]

\* s[:n]
Take(s, n) == [k \in 1..(IF n < Len(s) THEN n ELSE Len(s)) |-> s[k]]

\* np.random.choice(np.arange(population), n, replace=False)
Choices(population, n) ==
    {s \in [1..n -> 0..(population - 1)] :
        \A i, j \in 1..n : s[i] = s[j] => i = j}

----------------------------------------------------------------------------
(* plotter.py: the plot functions                                          *)
(*                                                                         *)
(* A call returns what the function did: how it ended, how many statistics *)
(* it had computed from the arrays by then, the series it handed to        *)
(* matplotlib and the value it returned. labels and iters are passed by    *)
(* the caller, as plots.py does; a series is keyed by the indices of the   *)
(* matrices its label names.                                               *)

Failed(error, stats) ==
    [outcome |-> error, stats |-> stats, series |-> <<>>, top_n |-> <<>>]
Plotted(series, stats) ==
    [outcome |-> "ok", stats |-> stats, series |-> series, top_n |-> <<>>]
Returned(top_n, stats) ==
    [outcome |-> "ok", stats |-> stats, series |-> <<>>, top_n |-> top_n]

\* enumerate(preds) and enumerate(preds[i + 1:]): the labels i and i+j+1
Singles(k) == {<<i>> : i \in 0..(k - 1)}
Pairs(k) == {p \in (0..(k - 1)) \X (0..(k - 1)) : p[1] < p[2]}

\* two or more lists of predictions pass
AtLeastTwoPreds(preds) == Len(preds) >= 2

\* assert len(preds) == 2
TwoPreds(preds) == Len(preds) = 2

\* assert preds[0].shape == pred.shape, for pred in preds
SameShapes(preds) ==
    \A i \in 1..Len(preds) : ShapeOf(preds[1]) = ShapeOf(preds[i])

plot_stability(preds) ==
    IF ~SameShapes(preds) THEN Failed("AssertionError", 0)
    ELSE Plotted([i \in 0..(Len(preds) - 1) |->
                    [match |-> MeanOfRows(Unchanged(preds[i + 1])),
                     accuracy |-> MeanOfRows(DropFirst(preds[i + 1]))]],
                 2 * Len(preds))

plot_mismatch(preds, histogram, window) ==
    IF histogram
      THEN IF ~TwoPreds(preds) THEN Failed("AssertionError", 0)
           ELSE LET match == MeanOfCols(Equal(preds[1], preds[2]),
                                Broadcast(Cols(preds[1]), Cols(preds[2])))
                IN  Plotted(<<OneMinus(match)>>, 1)
      ELSE Plotted([p \in Pairs(Len(preds)) |->
                      LET match == MeanOfRows(Equal(preds[1], preds[2]))
                      IN  Windowed(OneMinus(match), window)],
                   Cardinality(Pairs(Len(preds))))

\* with a window the first pass of the loop stops at len(match), a name the
\* function never binds, after the error rate and its convolution
plot_misclassification(preds, histogram, window) ==
    IF histogram
      THEN IF ~TwoPreds(preds) THEN Failed("AssertionError", 0)
           ELSE LET accuracy_a == MeanOfCols(DropFirst(preds[1]), Cols(preds[1]))
                    accuracy_b == MeanOfCols(DropFirst(preds[2]), Cols(preds[2]))
                IN  Plotted(<<OneMinus(accuracy_a), OneMinus(accuracy_b)>>, 2)
      ELSE IF window > 0 THEN Failed("NameError", 2)
      ELSE LET k == Len(preds)
           IN  Plotted([l \in Singles(k) \cup Pairs(k) |->
                          IF Len(l) = 1
                            THEN OneMinus(MeanOfRows(preds[l[1] + 1]))
                            ELSE MeanOfRows(BothWrong(preds[l[1] + 1],
                                                      preds[l[2] + 1]))],
                       Cardinality(Singles(k) \cup Pairs(k)))

\* the score of each sample under a sort policy, on a common denominator
Scores(preds_a, preds_b, sort) ==
    LET N == Broadcast(Cols(preds_a), Cols(preds_b))
    IN  IF sort = "mismatch"
          THEN [n \in 1..N |-> MeanOfCols(Equal(preds_a, preds_b), N)[n][1]]
        ELSE IF sort = "misclassification"
          THEN [n \in 1..N |-> MeanOfCols(Or(preds_a, preds_b), N)[n][1]]
        ELSE LET sa == MeanOfCols(Unchanged(preds_a), Cols(preds_a))
                 sb == MeanOfCols(Unchanged(preds_b), Cols(preds_b))
                 ca(n) == IF Cols(preds_a) = 1 THEN 1 ELSE n
                 cb(n) == IF Cols(preds_b) = 1 THEN 1 ELSE n
             IN  [n \in 1..N |->
                    IF Rows(preds_a) = 1 \/ Rows(preds_b) = 1 THEN 0
                    ELSE sa[ca(n)][1] * (Rows(preds_b) - 1)
                           + sb[cb(n)][1] * (Rows(preds_a) - 1)]

\* the values top_n can take
TopN(preds_a, preds_b, n_samples, sort) ==
    IF sort \in {"mismatch", "misclassification", "stability"}
      THEN {Take(ArgSort(Scores(preds_a, preds_b, sort)), n_samples)}
      ELSE Choices(Rows(preds_a), n_samples)

\* the loop that fills the image with the columns top_n[i] of both matrices
FillImage(preds_a, preds_b, n_samples, top_n, stats) ==
    LET error(i) ==
            IF i > Len(top_n) THEN "IndexError"
            ELSE IF top_n[i] >= Cols(preds_a) THEN "IndexError"
            ELSE IF top_n[i] >= Cols(preds_b) THEN "IndexError"
            ELSE IF Rows(preds_b) \notin {1, Rows(preds_a)} THEN "ValueError"
            ELSE "ok"
        bad == {i \in 1..n_samples : error(i) # "ok"}
    IN  IF bad = {} THEN Returned(top_n, stats)
        ELSE Failed(error(CHOOSE i \in bad : \A j \in bad : i <= j), stats)

\* every way the call can end; the random sample is any of its values
plot_persistence(preds, n_samples, sort) ==
    IF ~TwoPreds(preds) THEN {Failed("AssertionError", 0)}
    ELSE LET tops == TopN(preds[1], preds[2], n_samples, sort)
             stats == IF sort \in {"mismatch", "misclassification", "stability"}
                        THEN 1 ELSE 0
         IN  IF tops = {} THEN {Failed("ValueError", stats)}
             ELSE {FillImage(preds[1], preds[2], n_samples, t, stats) : t \in tops}

----------------------------------------------------------------------------
(* plotter.py: the calls                                                   *)

\* the shapes (E, N) of the matrices: a single epoch, a single sample, and
\* two of each
Shapes == {<<1, 2>>, <<2, 1>>, <<2, 2>>}
MatricesOf(shape) == [1..shape[1] -> [1..shape[2] -> {0, 1}]]
Matrices == UNION {MatricesOf(shape) : shape \in Shapes}
SmallMatrices == MatricesOf(<<1, 2>>) \cup MatricesOf(<<2, 1>>)

\* one or two matrices of any of the shapes, or three of the small ones
PredLists ==
    {<<a>> : a \in Matrices}
      \cup {<<a, b>> : a \in Matrices, b \in Matrices}
      \cup {<<a, b, c>> : a \in SmallMatrices, b \in SmallMatrices,
                          c \in SmallMatrices}

\* "random" stands for every value that names no policy
Sorts == {"mismatch", "misclassification", "stability", "random"}

\* windows up to the number of epochs
WindowSizes == 0..2
SampleCounts == 1..2

Windows(preds) ==
    {w \in WindowSizes : \A i \in 1..Len(preds) : w <= Rows(preds[i])}

Calls ==
    [fn : {"plot_stability"}, preds : PredLists]
      \cup {c \in [fn : {"plot_mismatch", "plot_misclassification"},
                   preds : PredLists, histogram : BOOLEAN, window : WindowSizes] :
               c.window \in Windows(c.preds)}
      \cup {c \in [fn : {"plot_persistence"}, preds : PredLists,
                   n_samples : SampleCounts, sort : Sorts] :
               c.n_samples <= Cols(c.preds[1])}

\* no Trainer runs while the plots are drawn
PlotInit ==
    /\ \E c \in Configs({0}) :
          /\ ~c.val_loader /\ ~c.update_sched_on_iter /\ ~c.writer
          /\ ~c.save_path /\ ~c.save_preds
          /\ Fresh(c, None, None)
    /\ loss_values = AnyLosses
    /\ resumes_left = 0
    /\ writing = None
    /\ call \in {Some(c) : c \in Calls}
    /\ result = None

Returns(r) ==
    /\ result = None
    /\ result' = Some(r)
    /\ UNCHANGED <<disk, audit, writing, call>>
    /\ UNCHANGED TrainerVars

PlotStability ==
    /\ call[1].fn = "plot_stability"
    /\ Returns(plot_stability(call[1].preds))

PlotMismatch ==
    /\ call[1].fn = "plot_mismatch"
    /\ Returns(plot_mismatch(call[1].preds, call[1].histogram, call[1].window))

PlotMisclassification ==
    /\ call[1].fn = "plot_misclassification"
    /\ Returns(plot_misclassification(call[1].preds, call[1].histogram,
                                      call[1].window))

PlotPersistence ==
    /\ call[1].fn = "plot_persistence"
    /\ \E r \in plot_persistence(call[1].preds, call[1].n_samples, call[1].sort) :
          Returns(r)

PlotNext ==
    \/ PlotStability
    \/ PlotMismatch
    \/ PlotMisclassification
    \/ PlotPersistence

PlotSpec == PlotInit /\ [][PlotNext]_vars

----------------------------------------------------------------------------
(* Properties *)

\* the sequence a, a+1, ..., b-1
Upto(a, b) == IF b <= a THEN <<>> ELSE [i \in 1..(b - a) |-> a + i - 1]

Writes(f) == Len(audit[f].at)

\* file f is written once more by the step, with epoch argument e
WrittenInStep(f, e) == audit'[f].at = Append(audit[f].at, e)
UntouchedInStep(f) == audit'[f].at = audit[f].at

\* a step of _end_loop that gets to its save block
SavingStep ==
    /\ pc = "end"
    /\ cfg.save_path
    /\ ~(cfg.writer /\ WriteToTbRaises)
    /\ audit' # audit

TrainPcs == {"forward", "optimizer_step", "ema", "sched_iter", "train_metrics"}
AfterTrainPcs == {"val", "avg_val", "end"}
EpochPcs == TrainPcs \cup {"train_end"} \cup AfterTrainPcs

\* training batches of the current epoch whose optimizer step is taken
StepsInEpoch ==
    IF pc \in {"forward", "optimizer_step"} THEN batch
    ELSE IF pc \in {"ema", "sched_iter", "train_metrics"} THEN batch + 1
    ELSE IF pc \in {"train_end"} \cup AfterTrainPcs THEN NumTrainBatches
    ELSE 0

Resumed == cfg.checkpoint_path # None
LoadFailed == pc = "error" /\ calls = NoCalls /\ ended = 0 /\ Resumed

\* C1: with a save path and a validation set, an end-of-epoch phase writes
\* best_model.pt iff the epoch's validation loss is strictly below the lowest
\* validation loss of the earlier epochs of the run (+infinity at first), a
\* tie does not write, and best_averaged_model.pt follows the same rule on
\* the averaged model's loss; under the losses 3.0, 2.5, 2.5, 2.0, 2.6 the
\* best checkpoint is written exactly in the 1st, 2nd and 4th epoch.
C1_Step ==
    (SavingStep /\ cfg.val_loader) =>
        /\ IF Greater(lowest_val, LossCompute(metric.val_loss_metric))
             THEN WrittenInStep("best_model.pt", epoch)
             ELSE UntouchedInStep("best_model.pt")
        /\ averaged_model # None =>
             IF Greater(lowest_avg, LossCompute(metric.avg_model_loss_metric))
               THEN WrittenInStep("best_averaged_model.pt", epoch)
               ELSE UntouchedInStep("best_averaged_model.pt")

C1_Scenario ==
    (loss_values = ScenarioPlan /\ ~Resumed /\ pc = "done") =>
        /\ audit["best_model.pt"].at = <<0, 1, 3>>
        /\ averaged_model # None =>
              audit["best_averaged_model.pt"].at = <<0, 1, 3>>

C1_BestCheckpoint == [][C1_Step]_vars /\ []C1_Scenario

C1_Witness ==
    /\ loss_values = ScenarioPlan
    /\ ~Resumed
    /\ pc = "done"
    /\ averaged_model # None
    /\ Writes("best_model.pt") = 3

C3_StoredIndexIsEpochsCompleted ==
    \A f \in DOMAIN disk :
        Writes(f) > 0 => disk[f].epoch = Len(audit[f].lineage)

\* C4: with a save path, most_recent.pt is written once in every
\* end-of-epoch phase; the final checkpoints are not written before the loop
\* has ended; a run that ends has written most_recent.pt once per epoch of
\* start_epoch..epochs-1, final_model.pt once and final_averaged_model.pt
\* once iff there is an averaged model, and the final save does not fail.
C4_MostRecentAndFinal ==
    cfg.save_path =>
        /\ pc # "error" => Writes("most_recent.pt") = ended
        /\ pc \in EpochPcs \cup {"ready", "final"} =>
              /\ Writes("final_model.pt") = 0
              /\ Writes("final_averaged_model.pt") = 0
        /\ pc = "done" =>
              /\ audit["most_recent.pt"].at = Upto(start_epoch, cfg.epochs)
              /\ audit["final_model.pt"].at = <<cfg.epochs>>
              /\ Writes("final_averaged_model.pt")
                    = (IF averaged_model # None THEN 1 ELSE 0)
        /\ err # "TypeError: save_path is None"
        /\ (pc = "error" /\ ~LoadFailed) => epoch < cfg.epochs

C4_Witness ==
    /\ cfg.save_path
    /\ pc = "done"
    /\ Writes("most_recent.pt") = 3
    /\ Writes("best_model.pt") > 0
    /\ Writes("final_averaged_model.pt") = 1

\* C5: a checkpoint whose epoch index exceeds epochs makes the construction
\* fail before any batch, with the index unclamped; one whose index is at
\* most epochs is accepted with start_epoch set to that index, and with the
\* index equal to epochs the run trains nothing.
C5_LoadChecksEpoch ==
    /\ (Resumed /\ (pc = "ready" \/ LoadFailed)) =>
          LET stored == disk[cfg.checkpoint_path[1]].epoch
          IN  /\ start_epoch = stored
              /\ stored > cfg.epochs =>
                    (pc = "error" /\ calls = NoCalls /\ ended = 0)
              /\ stored <= cfg.epochs => pc = "ready"
    /\ (Resumed /\ start_epoch = cfg.epochs /\ pc # "error") =>
          (calls = NoCalls /\ pc \in {"ready", "final", "done"})

C5_Witness ==
    /\ LoadFailed
    /\ start_epoch > cfg.epochs
    /\ disk[cfg.checkpoint_path[1]].epoch = start_epoch

\* C6: in every epoch the train phase, the validation of the primary model,
\* the validation of the averaged model and the end-of-epoch phase run in
\* that order, each whole before the next: a validation batch runs only when
\* every training batch of the epoch has, an averaged validation batch only
\* when every primary one has, validation only with a validation set (the
\* averaged one only with an averaged model too), and a train phase only
\* when the end-of-epoch phases of all earlier epochs of the run have ended.
C6_PhaseOrder ==
    LET train_n == metric.train_loss_metric.n
        val_n == metric.val_loss_metric.n
        avg_n == metric.avg_model_loss_metric.n
    IN  /\ pc \in TrainPcs =>
              /\ train_n = batch
              /\ val_n = 0 /\ avg_n = 0
        /\ pc = "val" =>
              /\ cfg.val_loader
              /\ train_n = NumTrainBatches /\ val_n = batch /\ avg_n = 0
        /\ pc = "avg_val" =>
              /\ cfg.val_loader /\ averaged_model # None
              /\ train_n = NumTrainBatches /\ val_n = NumValBatches
              /\ avg_n = batch
        /\ pc = "end" =>
              /\ train_n = NumTrainBatches
              /\ val_n = (IF cfg.val_loader THEN NumValBatches ELSE 0)
              /\ avg_n = (IF cfg.val_loader /\ averaged_model # None
                            THEN NumValBatches ELSE 0)
        /\ pc \in EpochPcs =>
              /\ ended = epoch - start_epoch
              /\ calls.train_loop
                    = ended + (IF pc \in AfterTrainPcs THEN 1 ELSE 0)

C6_Witness ==
    /\ pc = "avg_val"
    /\ batch = NumValBatches - 1
    /\ ended > 0

\* C7: with an averaged model, its update runs once per training batch,
\* after the batch's optimizer step and before the next forward pass, and in
\* no other phase: outside the point between the two calls the Trainer has
\* made as many updates as optimizer steps.
C7_UpdatePerStep ==
    /\ averaged_model # None =>
          /\ calls.ema = calls.opt - (IF pc = "ema" THEN 1 ELSE 0)
          /\ averaged_model[1] = calls.ema
          /\ pc \in EpochPcs =>
                calls.opt = ended * NumTrainBatches + StepsInEpoch
    /\ averaged_model = None => calls.ema = 0

C7_Witness ==
    /\ averaged_model # None
    /\ pc = "forward"
    /\ batch > 0
    /\ ended > 0
    /\ calls.ema = calls.opt

\* C8: a scheduler is stepped in one granularity: per iteration, once per
\* training batch after the optimizer step and never at the end of the train
\* phase; per epoch, once per epoch after the last training batch and before
\* any validation batch; without a scheduler, never.
C8_SchedulerSteps ==
    pc # "error" =>
        /\ scheduler = None => calls.sched = 0
        /\ SchedOnIter =>
              calls.sched = calls.opt
                              - (IF pc \in {"ema", "sched_iter"} THEN 1 ELSE 0)
        /\ SchedOnEpoch =>
              calls.sched = ended + (IF pc \in AfterTrainPcs THEN 1 ELSE 0)
        /\ calls.opt = ended * NumTrainBatches + StepsInEpoch

C8_Witness ==
    /\ SchedOnIter
    /\ pc = "done"
    /\ ended = 2
    /\ calls.sched = 2 * NumTrainBatches

\* C9: no run fails because a component that was not configured is used.
C9_NoAbsentComponentUsed ==
    err \notin {"TypeError: save_path is None",
                "AttributeError: scheduler is None"}

\* C10: a bundle written by _save_model holds the model state, the optimizer
\* state, the scheduler state (None without a scheduler) and the epoch index
\* of the Trainer that wrote it, and a Trainer with the same scheduler
\* configuration that loads it has exactly these, the scheduler field being
\* ignored without a scheduler.
C10_RoundTrip ==
    LET state(e) == [epoch |-> e, optimizer |-> optimizer, model |-> model,
                     scheduler |-> scheduler]
    IN  /\ (cfg.save_path /\ ended > 0
              /\ (pc = "final" \/ (pc = "forward" /\ batch = 0))) =>
                 disk["most_recent.pt"] = state(epoch)
        /\ pc = "done" =>
              disk["final_model.pt"] = state(disk["final_model.pt"].epoch)
        /\ (Resumed /\ (pc = "ready" \/ LoadFailed)) =>
              LET bundle == disk[cfg.checkpoint_path[1]]
              IN  /\ model = bundle.model
                  /\ optimizer = bundle.optimizer
                  /\ start_epoch = bundle.epoch
                  /\ scheduler = bundle.scheduler

C10_Witness ==
    /\ Resumed
    /\ pc = "ready"
    /\ scheduler # None
    /\ scheduler[1] > 1
    /\ model > 0
    /\ disk[cfg.checkpoint_path[1]].scheduler = scheduler

\* C11: a checkpoint save overwrites its target atomically: at every instant
\* each checkpoint path is absent or holds a complete bundle (the previous
\* one or the new one), never a partially written file.
C11_AtomicOverwrite ==
    \A f \in DOMAIN disk : disk[f] # Truncated

\* C12: best_val_loss and best_avg_val_loss are +infinity at construction
\* and never increase afterwards; a step changes one of them only if it is an
\* end-of-epoch phase, only to the (primary, respectively averaged)
\* validation loss of that epoch and only when that loss is strictly lower,
\* whatever happens to the other tracker in the same step.
C12_Tracker(best, new, loss) ==
    /\ ~Greater(new, best)
    /\ new # best => (pc = "end" /\ new = loss /\ Greater(best, loss))

C12_Step ==
    IF resumes_left' # resumes_left
      THEN best_val_loss' = Inf /\ best_avg_val_loss' = Inf
      ELSE /\ C12_Tracker(best_val_loss, best_val_loss',
                          LossCompute(metric.val_loss_metric))
           /\ C12_Tracker(best_avg_val_loss, best_avg_val_loss',
                          LossCompute(metric.avg_model_loss_metric))

C12_BestLossTrackers ==
    /\ [][C12_Step]_vars
    /\ [](pc = "ready" => (best_val_loss = Inf /\ best_avg_val_loss = Inf))

\* after two epochs both trackers were lowered and hold different losses
C12_Witness ==
    /\ ended >= 2
    /\ best_val_loss # Inf
    /\ best_avg_val_loss # Inf
    /\ best_val_loss # best_avg_val_loss

----------------------------------------------------------------------------
(* Properties of the plot functions *)

\* the call of fn has returned
Called(fn) == call # None /\ result # None /\ call[1].fn = fn

\* C13: plot_persistence, given two E x N matrices and n_samples <= N,
\* returns exactly n_samples pairwise distinct sample indices in [0, N),
\* under each of the three sort policies and under the random fallback.
C13_PersistenceIndices ==
    (/\ Called("plot_persistence")
     /\ TwoPreds(call[1].preds)
     /\ SameShapes(call[1].preds)) =>
        LET n == call[1].n_samples
            top_n == result[1].top_n
        IN  /\ result[1].outcome = "ok"
            /\ Len(top_n) = n
            /\ \A i, j \in 1..n : top_n[i] = top_n[j] => i = j
            /\ \A i \in 1..n : top_n[i] \in 0..(Cols(call[1].preds[1]) - 1)

\* C14: without histogram, plot_mismatch of k >= 2 matrices of one shape
\* plots one series per pair i < j, and the series labelled (i, j) holds at
\* each epoch the fraction of samples on which matrix i and matrix j differ.
C14_PairSeries ==
    (/\ Called("plot_mismatch")
     /\ ~call[1].histogram
     /\ call[1].window = 0
     /\ Len(call[1].preds) >= 2
     /\ SameShapes(call[1].preds)) =>
        LET preds == call[1].preds
            differ(i, j, e) ==
                {n \in 1..Cols(preds[1]) : preds[i + 1][e][n] # preds[j + 1][e][n]}
        IN  /\ result[1].outcome = "ok"
            /\ DOMAIN result[1].series = Pairs(Len(preds))
            /\ \A p \in Pairs(Len(preds)) :
                  result[1].series[p] =
                     [e \in 1..Rows(preds[1]) |->
                        <<Cardinality(differ(p[1], p[2], e)), Cols(preds[1])>>]

\* C15: without histogram and with a window w of at most E epochs,
\* plot_mismatch plots a series for every pair and plot_misclassification one
\* for every matrix and every pair; with w >= 1 each has E - w + 1 values,
\* and with w = 0 or w = 1 each equals the series plotted without a window.
C15_WindowedSeries ==
    \A fn \in {"plot_mismatch", "plot_misclassification"} :
        (/\ Called(fn)
         /\ ~call[1].histogram
         /\ SameShapes(call[1].preds)) =>
            LET preds == call[1].preds
                w == call[1].window
                labels == IF fn = "plot_mismatch" THEN Pairs(Len(preds))
                          ELSE Singles(Len(preds)) \cup Pairs(Len(preds))
                plain == IF fn = "plot_mismatch"
                           THEN plot_mismatch(preds, FALSE, 0).series
                           ELSE plot_misclassification(preds, FALSE, 0).series
            IN  /\ result[1].outcome = "ok"
                /\ DOMAIN result[1].series = labels
                /\ \A l \in labels :
                      /\ w >= 1 => Len(result[1].series[l]) = Rows(preds[1]) - w + 1
                      /\ w <= 1 => result[1].series[l] = plain[l]

\* C16: every plot function given matrices of differing shapes fails with
\* the shape assertion before it has computed any statistic from them.
C16_ShapesChecked ==
    (/\ call # None
     /\ result # None
     /\ ~SameShapes(call[1].preds)
     /\ (call[1].fn = "plot_persistence" => TwoPreds(call[1].preds))
     /\ (/\ call[1].fn \in {"plot_mismatch", "plot_misclassification"}
         /\ call[1].histogram) => TwoPreds(call[1].preds)) =>
        /\ result[1].outcome = "AssertionError"
        /\ result[1].stats = 0

\* the calls that take exactly two matrices
NeedsTwo ==
    \/ call[1].fn = "plot_persistence"
    \/ /\ call[1].fn \in {"plot_mismatch", "plot_misclassification"}
       /\ call[1].histogram

\* C17: plot_persistence and the histograms of plot_mismatch and
\* plot_misclassification fail with the assertion on the number of matrices,
\* before any statistic is computed, when given one or three matrices, and
\* do not fail with it when given two.
C17_ExactlyTwo ==
    (call # None /\ result # None /\ NeedsTwo) =>
        IF Len(call[1].preds) = 2
          THEN result[1].outcome # "AssertionError"
          ELSE result[1].outcome = "AssertionError" /\ result[1].stats = 0

C17_Witness ==
    /\ Called("plot_mismatch")
    /\ call[1].histogram
    /\ Len(call[1].preds) = 3
    /\ result[1].outcome = "AssertionError"

----------------------------------------------------------------------------
(* plots.py: the reader of the prediction files *)

\* f"{epoch}.npy" and f"{epoch}_average.npy"
ReaderFile(e, average) == [epoch |-> e, average |-> average]

\* the loop that loads both files of epoch 0, 1, ... while the primary one
\* exists: the rows loaded and how the loop ended
RECURSIVE ReaderLoop(_, _)
ReaderLoop(dir, e) ==
    IF ReaderFile(e, FALSE) \notin dir THEN [rows |-> e, outcome |-> "ok"]
    ELSE IF ReaderFile(e, TRUE) \notin dir
      THEN [rows |-> e, outcome |-> "FileNotFoundError"]
    ELSE ReaderLoop(dir, e + 1)

\* between two epochs of a run, or after its last one
EpochBoundary ==
    \/ pc = "forward" /\ batch = 0
    \/ pc \in {"final", "done"}

\* C18: with save_preds and a save path, no averaged prediction file exists
\* without the primary file of its epoch (the primary one is written first);
\* at an epoch boundary both files exist for every epoch the Trainer has
\* trained; and in a run from epoch 0 the epochs with files are then exactly
\* those trained, 0..epochs-1 at the end, and the reader's loop loads a
\* primary and an averaged row for each of them.
C18_PredictionFiles ==
    (cfg.save_path /\ cfg.save_preds) =>
        /\ \A f \in preds_dir :
              f.average => ReaderFile(f.epoch, FALSE) \in preds_dir
        /\ EpochBoundary =>
              \A e \in start_epoch..(epoch - 1), average \in BOOLEAN :
                 ReaderFile(e, average) \in preds_dir
        /\ (EpochBoundary /\ ~Resumed) =>
              /\ preds_dir = {ReaderFile(e, average) :
                                e \in 0..(epoch - 1), average \in BOOLEAN}
              /\ ReaderLoop(preds_dir, 0) = [rows |-> epoch, outcome |-> "ok"]
              /\ pc = "done" => epoch = cfg.epochs

C18_Witness ==
    /\ cfg.save_path /\ cfg.save_preds
    /\ ~Resumed
    /\ pc = "done"
    /\ ReaderLoop(preds_dir, 0) = [rows |-> 2, outcome |-> "ok"]

\* C19: at the start of every epoch's train phase, and after the last
\* epoch, each of the six accumulators holds no sample, with or without a
\* validation set and an averaged model; and the end-of-epoch phase reads
\* before it resets: a best loss it stored is the loss over all validation
\* batches of an epoch, and its prediction save never finds an accumulator
\* unfed that the epoch's validation passes had fed.
C19_AccumulatorsReset ==
    /\ (EpochBoundary \/ pc = "ready") => metric = NewMetrics
    /\ best_val_loss # Inf => best_val_loss[2] = NumValBatches
    /\ best_avg_val_loss # Inf => best_avg_val_loss[2] = NumValBatches
    /\ (pc = "error" /\ err = "get_preds: no predictions") =>
          ~(cfg.val_loader /\ averaged_model # None)

C19_Witness ==
    /\ pc = "forward" /\ batch = 0
    /\ ended >= 1
    /\ cfg.val_loader /\ averaged_model # None
    /\ cfg.save_path /\ cfg.save_preds
    /\ best_val_loss # Inf /\ best_avg_val_loss # Inf
    /\ metric = NewMetrics

\* C20: an end-of-epoch phase leaves best_model.pt as it is when the epoch's
\* validation loss is not strictly lower than the loss of the checkpoint
\* the file already holds, whichever Trainer wrote it, so that the file
\* holds the lowest-loss checkpoint of all epochs trained into the save
\* path; likewise best_averaged_model.pt.
C20_Step ==
    (SavingStep /\ cfg.val_loader) =>
        /\ ("best_model.pt" \in DOMAIN disk
              /\ ~Greater(audit["best_model.pt"].loss,
                          LossCompute(metric.val_loss_metric))) =>
                 UntouchedInStep("best_model.pt")
        /\ (averaged_model # None /\ "best_averaged_model.pt" \in DOMAIN disk
              /\ ~Greater(audit["best_averaged_model.pt"].loss,
                          LossCompute(metric.avg_model_loss_metric))) =>
                 UntouchedInStep("best_averaged_model.pt")

C20_BestAcrossResume == [][C20_Step]_vars

\* C21: a Trainer with an averaged model that was resumed from a checkpoint
\* starts with the shadow parameters of the averaged checkpoint saved with
\* it, so that, as in a run that was never interrupted, the shadow
\* parameters have folded in as many updates as the primary parameters have
\* optimizer steps (the update of a batch follows its optimizer step).
C21_AveragedModelAcrossResume ==
    (averaged_model # None /\ ~LoadFailed) =>
        /\ averaged_model[1] = (IF pc = "ema" THEN model - 1 ELSE model)
        /\ (Resumed /\ pc = "ready") =>
              \E f \in AvgFiles \cap DOMAIN disk :
                 /\ disk[f].epoch = start_epoch
                 /\ disk[f].model = averaged_model[1]

====
